---- MODULE Spec2Model ----
(***************************************************************************)
(* Bell 407 dashboard builder (src/src/build_b407_dashboard.py): the       *)
(* flight-hours history store (load / merge / save), the utilization       *)
(* estimator and the due-item classifier, with one build() run modelled    *)
(* as a sequence of steps over the files it reads and writes.              *)
(*                                                                         *)
(* Numbers: hours and remaining days/hours are floats in the source.  Here *)
(* hours are integers, a rate is the exact quotient [num, den], and the    *)
(* classifier's inputs are counted in 1/Unit of a day or hour.  Calendar   *)
(* days are day numbers; the source compares ISO strings, whose order is   *)
(* the calendar order.  An optional value is None (<<>>) or Some(v).       *)
(***************************************************************************)
EXTENDS Integers, Sequences, FiniteSets, TLC

\* ---- Bounds --------------------------------------------------------------
MaxDailyRows  == 2   \* rows of one daily export
MaxWeeklyRows == 1   \* rows of one weekly export
MaxSnapshots  == 3   \* snapshots of the entity handed to the estimator alone
MaxItems      == 3   \* tracked inspection rows of one aircraft
MaxBatchRows  == 3   \* rows of the batch handed to collect_snapshots alone
Unit          == 2   \* classifier inputs are multiples of 1/Unit

\* ---- Thresholds (lines 37-40) ---------------------------------------------
CRITICAL_DAYS    == 7
COMING_DUE_DAYS  == 30
CRITICAL_HOURS   == 25
COMING_DUE_HOURS == 100

None    == <<>>
Some(v) == <<v>>

\* ---- Sample inputs -------------------------------------------------------
RowDays  == {5, 8}
Hours    == {100, 130}
Todays   == {8, 12, 31, 35}
UtilDays == {1, 5, 8, 31}
UtilHours == {100, 130, 160}

\* A cell of the export as pandas hands it over: NaN (no value), a number, or
\* text; a text cell may carry surrounding blanks, and a date cell is text in
\* one of the formats parse_date_iso tries, or text no parser accepts.
NaN          == [kind |-> "nan",  v |-> 0, text |-> "",  pad |-> FALSE]
Num(n)       == [kind |-> "num",  v |-> n, text |-> "",  pad |-> FALSE]
Text(s, p)   == [kind |-> "text", v |-> 0, text |-> s,   pad |-> p]
DateCell(f, d) == [kind |-> "text", v |-> d, text |-> f, pad |-> FALSE]
\* Text that float() reads as the number n, such as "12".
NumText(n)   == [kind |-> "text", v |-> n, text |-> "float", pad |-> FALSE]

Row(t, d, h) == [tail |-> t, date |-> d, hours |-> h]

GoodRows ==
    { Row(Text("N1", FALSE), DateCell("%m/%d/%Y", d), Num(h)) :
        d \in RowDays, h \in Hours }
    \cup { Row(Text("N2", FALSE), DateCell("%m/%d/%Y", 8), Num(100)) }
OddRows ==
    { Row(Text("N1", TRUE), DateCell("%Y-%m-%d", 5), Num(130)),
      Row(Text("N2", FALSE), DateCell("pandas", 8), Num(100)),
      Row(Text("", TRUE),   DateCell("%m/%d/%Y", 5), Num(100)),
      Row(NaN,              DateCell("%m/%d/%Y", 5), Num(100)),
      Row(Text("N1", FALSE), DateCell("garbage", 0), Num(100)),
      Row(Text("N1", FALSE), NaN,                    Num(100)),
      Row(Text("N1", FALSE), DateCell("%m/%d/%Y", 8), Text("abc", FALSE)),
      Row(Text("N1", FALSE), DateCell("%m/%d/%Y", 8), NumText(130)),
      Row(Text("N1", FALSE), DateCell("%m/%d/%Y", 8), NaN) }
RowSet == GoodRows \cup OddRows
\* The rows an export of a whole run is made of: the good rows, and two
\* rows collect_snapshots passes over, one without a tail and one whose
\* hours are text.
ExportRows ==
    GoodRows \cup
    { Row(Text("", TRUE),    DateCell("%m/%d/%Y", 5), Num(100)),
      Row(Text("N1", FALSE), DateCell("%m/%d/%Y", 8), Text("abc", FALSE)) }

SeqsUpTo(S, n) == UNION { [1..k -> S] : k \in 0..n }

AllColumns ==
    { "Registration Number", "Airframe Report Date", "Airframe Hours",
      "Item Type", "Requirement Type", "Remaining Hours" }
\* The column sets an export may arrive with: complete, or one column short.
Schemas ==
    { AllColumns,
      AllColumns \ {"Item Type"},
      AllColumns \ {"Airframe Hours"},
      AllColumns \ {"Requirement Type"} }

DAILY_CSV    == "data/407_daily_due_list.csv"
WEEKLY_CSV   == "data/407_Due-List_weekly.csv"
HISTORY_JSON == "data/407_flight_hours_history.json"
OUTPUT_JSON  == "dist/data/dashboard.json"

\* ---- Helpers (lines 45-83) -----------------------------------------------
\* _norm: "" for None/NaN, else str(s).strip().
norm(s) == IF s.kind = "nan" THEN "" ELSE s.text

\* parse_date_iso: the ISO day, or None.  %m/%d/%Y, then %Y-%m-%d, then
\* pandas' permissive parser; anything else is NaT.
parse_date_iso(val) ==
    IF val.kind = "nan" THEN None
    ELSE IF val.text = "" THEN None
    ELSE IF val.text \in {"%m/%d/%Y", "%Y-%m-%d"} THEN Some(val.v)
    ELSE IF val.text = "pandas" THEN Some(val.v)
    ELSE None

\* float(row["Airframe Hours"]): a number, nan, or ValueError on text that
\* is not a number.
to_float(cell) ==
    IF cell.kind = "num" THEN [exc |-> "none", nan |-> FALSE, v |-> cell.v]
    ELSE IF cell.kind = "nan" THEN [exc |-> "none", nan |-> TRUE, v |-> 0]
    ELSE IF cell.text = "float" THEN [exc |-> "none", nan |-> FALSE, v |-> cell.v]
    ELSE [exc |-> "ValueError", nan |-> FALSE, v |-> 0]

\* ---- History (lines 114-157) ---------------------------------------------
EmptyHistory == <<>>
Put(f, k, v) == [x \in (DOMAIN f) \cup {k} |-> IF x = k THEN v ELSE f[x]]

\* What json.load gave, as far as it is not a history: "top" when the value
\* itself is not a mapping ([] or null), "lists" for the tails whose value
\* is a list and not a mapping of days.  The value of such a tail is the
\* list, a function from the list's elements to ListElement: "in" looks
\* among the elements of a list as it looks among the keys of a mapping
\* (line 155).
ListElement == [element |-> TRUE]
ListOf(days) == [d \in days |-> ListElement]
Mapping == [top |-> FALSE, lists |-> {}]

\* The history file: absent, holding text json.load rejects (empty or cut
\* short), holding the complete dump of a history, or holding JSON of
\* another shape: a value that is no mapping ("other"), or a mapping in
\* which the tails named have a list.
AbsentFile      == [kind |-> "absent",   data |-> EmptyHistory, lists |-> {}]
CorruptFile     == [kind |-> "corrupt",  data |-> EmptyHistory, lists |-> {}]
CompleteFile(h) == [kind |-> "complete", data |-> h,            lists |-> {}]
OtherFile       == [kind |-> "other",    data |-> EmptyHistory, lists |-> {}]
ListsFile(h, tails) == [kind |-> "complete", data |-> h, lists |-> tails]

\* load_history (lines 114-121): {} when the file is absent or json.load
\* raises; else whatever json.load returns, of whatever shape.
load_history(file) ==
    IF file.kind \in {"complete", "other"}
    THEN [exc |-> "none", value |-> file.data,
          shape |-> [top |-> file.kind = "other", lists |-> file.lists]]
    ELSE [exc |-> "none", value |-> EmptyHistory, shape |-> Mapping]

\* json.dump(history, f) (line 127): the file that holds the value.
dump(h, shape) ==
    IF shape.top THEN OtherFile ELSE ListsFile(h, shape.lists)

\* rows.drop_duplicates(): the first of each run of identical rows.
RECURSIVE drop_duplicates(_)
drop_duplicates(rows) ==
    IF rows = <<>> THEN <<>>
    ELSE LET front == drop_duplicates(SubSeq(rows, 1, Len(rows) - 1))
             last  == rows[Len(rows)]
         IN  IF \E i \in 1..Len(front) : front[i] = last
             THEN front ELSE Append(front, last)

\* The loop of collect_snapshots without its "seen" set: every row that
\* passes the filters is appended.
RECURSIVE collect_rows_no_seen(_, _, _)
collect_rows_no_seen(rows, seen, result) ==
    IF rows = <<>> THEN result
    ELSE LET row      == Head(rows)
             rest     == Tail(rows)
             tail     == norm(row.tail)
             date_iso == parse_date_iso(row.date)
             hours    == to_float(row.hours)
         IN  IF hours.exc # "none" \/ tail = "" \/ date_iso = None \/ hours.nan
             THEN collect_rows_no_seen(rest, seen, result)
             ELSE collect_rows_no_seen(rest, seen,
                      Append(result, <<tail, date_iso[1], hours.v>>))

\* The loop of collect_snapshots (lines 135-147).
RECURSIVE collect_rows(_, _, _)
collect_rows(rows, seen, result) ==
    IF rows = <<>> THEN result
    ELSE LET row      == Head(rows)
             rest     == Tail(rows)
             tail     == norm(row.tail)
             date_iso == parse_date_iso(row.date)
             hours    == to_float(row.hours)
         IN  IF hours.exc # "none" THEN collect_rows(rest, seen, result)
             ELSE IF tail = "" \/ date_iso = None \/ hours.nan
                  THEN collect_rows(rest, seen, result)
             ELSE LET key == <<tail, date_iso[1]>>
                  IN  IF key \notin seen
                      THEN collect_rows(rest, seen \cup {key},
                               Append(result, <<tail, date_iso[1], hours.v>>))
                      ELSE collect_rows(rest, seen, result)

\* collect_snapshots(df): KeyError when a selected column is missing.
collect_snapshots(df) ==
    LET need == {"Registration Number", "Airframe Report Date", "Airframe Hours"}
    IN  IF ~(need \subseteq df.columns)
        THEN [exc |-> "KeyError", value |-> <<>>]
        ELSE [exc |-> "none",
              value |-> collect_rows(drop_duplicates(df.rows), {}, <<>>)]

\* One iteration of update_history's loop, with the stored value replaced.
merge_one_overwrite(history, snap) ==
    LET tail == snap[1]
        h1   == IF tail \in DOMAIN history THEN history
                ELSE Put(history, tail, <<>>)
    IN  [h1 EXCEPT ![tail] = Put(@, snap[2], [hours |-> snap[3]])]

\* One iteration of update_history's loop, with a day that is there taken
\* out.
merge_one_toggle(history, snap) ==
    LET tail == snap[1]
        h1   == IF tail \in DOMAIN history THEN history
                ELSE Put(history, tail, <<>>)
    IN  IF snap[2] \notin DOMAIN h1[tail]
        THEN [h1 EXCEPT ![tail] = Put(@, snap[2], [hours |-> snap[3]])]
        ELSE [h1 EXCEPT ![tail] = [d \in (DOMAIN @) \ {snap[2]} |-> @[d]]]

\* One iteration of update_history's loop (lines 154-156).
merge_one(history, snap) ==
    LET tail     == snap[1]
        date_iso == snap[2]
        hours    == snap[3]
        h1       == IF tail \in DOMAIN history THEN history
                    ELSE Put(history, tail, <<>>)
    IN  IF date_iso \notin DOMAIN h1[tail]
        THEN [h1 EXCEPT ![tail] = Put(@, date_iso, [hours |-> hours])]
        ELSE h1

RECURSIVE update_history(_, _)
update_history(history, snaps) ==
    IF snaps = <<>> THEN history
    ELSE update_history(merge_one(history, Head(snaps)), Tail(snaps))

\* ---- Utilization stats (lines 162-228) -----------------------------------
Min(a, b) == IF a <= b THEN a ELSE b

\* sorted(keys, reverse=True)
RECURSIVE sorted_desc(_)
sorted_desc(S) ==
    IF S = {} THEN <<>>
    ELSE LET m == CHOOSE x \in S : \A y \in S : y <= x
         IN  <<m>> \o sorted_desc(S \ {m})

\* sorted(keys)
RECURSIVE sorted_asc(_)
sorted_asc(S) ==
    IF S = {} THEN <<>>
    ELSE LET m == CHOOSE x \in S : \A y \in S : x <= y
         IN  <<m>> \o sorted_asc(S \ {m})

\* daily_data (lines 176-179): the newest seven days, oldest first.
daily_data_of(snapshots, sorted_dates) ==
    LET recent == { sorted_dates[i] : i \in 1..Min(7, Len(sorted_dates)) }
        asc    == sorted_asc(recent)
    IN  [i \in 1..Len(asc) |-> [date |-> asc[i], hours |-> snapshots[asc[i]].hours]]

\* The two scans (lines 190-193, 197-200): the first date of the newest-first
\* list that is at or before the cutoff.
RECURSIVE first_at_or_before(_, _)
first_at_or_before(dates, cutoff) ==
    IF dates = <<>> THEN None
    ELSE IF Head(dates) <= cutoff THEN Some(Head(dates))
    ELSE first_at_or_before(Tail(dates), cutoff)

window_hours(snapshots, sorted_dates, latest_hours, cutoff) ==
    LET d == first_at_or_before(sorted_dates, cutoff)
    IN  IF d = None THEN None ELSE Some(latest_hours - snapshots[d[1]].hours)

\* "if span > 0: avg_daily = delta / span" (lines 205-206, 209-210, 217-218)
span_rate(delta, span) ==
    IF span > 0 THEN Some([num |-> delta, den |-> span]) ELSE None

\* avg_daily with the 7-day window tried before the 30-day one.
avg_daily_weekly_first(snapshots, sorted_dates, today) ==
    LET seven_ago     == today - 7
        thirty_ago    == today - 30
        latest_hours  == snapshots[sorted_dates[1]].hours
        monthly_hours == window_hours(snapshots, sorted_dates, latest_hours, thirty_ago)
        weekly_hours  == window_hours(snapshots, sorted_dates, latest_hours, seven_ago)
    IN  IF weekly_hours # None
        THEN span_rate(weekly_hours[1], today - seven_ago)
        ELSE IF monthly_hours # None
        THEN span_rate(monthly_hours[1], today - thirty_ago)
        ELSE LET oldest == sorted_dates[Len(sorted_dates)]
                 newest == sorted_dates[1]
             IN  span_rate(latest_hours - snapshots[oldest].hours, newest - oldest)

\* avg_daily for an entity with two or more snapshots (lines 186-218).
avg_daily_of(snapshots, sorted_dates, today) ==
    LET seven_ago     == today - 7
        thirty_ago    == today - 30
        latest_hours  == snapshots[sorted_dates[1]].hours
        monthly_hours == window_hours(snapshots, sorted_dates, latest_hours, thirty_ago)
        weekly_hours  == window_hours(snapshots, sorted_dates, latest_hours, seven_ago)
    IN  IF monthly_hours # None
        THEN span_rate(monthly_hours[1], today - thirty_ago)
        ELSE IF weekly_hours # None
        THEN span_rate(weekly_hours[1], today - seven_ago)
        ELSE LET oldest == sorted_dates[Len(sorted_dates)]
                 newest == sorted_dates[1]
             IN  span_rate(latest_hours - snapshots[oldest].hours, newest - oldest)

\* avg_daily * k, or None (lines 222-223)
times(avg, k) ==
    IF avg # None THEN Some([num |-> avg[1].num * k, den |-> avg[1].den]) ELSE None

\* The entry for fewer than two snapshots, with a rate of zero.
few_stats_zero(snapshots, sorted_dates) ==
    [avg_daily     |-> Some([num |-> 0, den |-> 1]),
     daily_data    |-> daily_data_of(snapshots, sorted_dates),
     current_hours |-> IF sorted_dates # <<>>
                       THEN Some(snapshots[sorted_dates[1]].hours) ELSE None]

\* The entry for fewer than two snapshots (lines 181-184).
few_stats(snapshots, sorted_dates) ==
    [avg_daily     |-> None,
     daily_data    |-> daily_data_of(snapshots, sorted_dates),
     current_hours |-> IF sorted_dates # <<>>
                       THEN Some(snapshots[sorted_dates[1]].hours) ELSE None]

\* The body of the loop over tails (lines 173-226).
entity_stats(snapshots, today) ==
    LET sorted_dates == sorted_desc(DOMAIN snapshots)
    IN  IF Len(sorted_dates) < 2 THEN few_stats(snapshots, sorted_dates)
        ELSE LET avg_daily == avg_daily_of(snapshots, sorted_dates, today)
             IN  [avg_daily          |-> avg_daily,
                  projection_weekly  |-> times(avg_daily, 7),
                  projection_monthly |-> times(avg_daily, 30),
                  daily_data         |-> daily_data_of(snapshots, sorted_dates),
                  current_hours      |-> Some(snapshots[sorted_dates[1]].hours)]

calculate_utilization(history, today) ==
    [tail \in DOMAIN history |-> entity_stats(history[tail], today)]

\* util.get(key): None when the entry has no such key (lines 311-313).
Get(rec, key) == IF key \in DOMAIN rec THEN rec[key] ELSE None

\* ---- Due-item classifier (lines 86-99) -----------------------------------
\* classify with the hours consulted before the days.
classify_hours_first(remaining_days, remaining_hours) ==
    IF remaining_hours # None
    THEN LET h == remaining_hours[1]
         IN  IF h < 0 THEN "OVERDUE"
             ELSE IF h <= CRITICAL_HOURS * Unit THEN "CRITICAL"
             ELSE IF h <= COMING_DUE_HOURS * Unit THEN "COMING DUE"
             ELSE "OK"
    ELSE IF remaining_days # None
    THEN LET d == remaining_days[1]
         IN  IF d < 0 THEN "OVERDUE"
             ELSE IF d <= CRITICAL_DAYS * Unit THEN "CRITICAL"
             ELSE IF d <= COMING_DUE_DAYS * Unit THEN "COMING DUE"
             ELSE "OK"
    ELSE "UNKNOWN"

\* classify with the upper boundaries exclusive.
classify_exclusive(remaining_days, remaining_hours) ==
    IF remaining_days # None
    THEN LET d == remaining_days[1]
         IN  IF d < 0 THEN "OVERDUE"
             ELSE IF d < CRITICAL_DAYS * Unit THEN "CRITICAL"
             ELSE IF d < COMING_DUE_DAYS * Unit THEN "COMING DUE"
             ELSE "OK"
    ELSE IF remaining_hours # None
    THEN LET h == remaining_hours[1]
         IN  IF h < 0 THEN "OVERDUE"
             ELSE IF h < CRITICAL_HOURS * Unit THEN "CRITICAL"
             ELSE IF h < COMING_DUE_HOURS * Unit THEN "COMING DUE"
             ELSE "OK"
    ELSE "UNKNOWN"

classify(remaining_days, remaining_hours) ==
    IF remaining_days # None
    THEN LET d == remaining_days[1]
         IN  IF d < 0 THEN "OVERDUE"
             ELSE IF d <= CRITICAL_DAYS * Unit THEN "CRITICAL"
             ELSE IF d <= COMING_DUE_DAYS * Unit THEN "COMING DUE"
             ELSE "OK"
    ELSE IF remaining_hours # None
    THEN LET h == remaining_hours[1]
         IN  IF h < 0 THEN "OVERDUE"
             ELSE IF h <= CRITICAL_HOURS * Unit THEN "CRITICAL"
             ELSE IF h <= COMING_DUE_HOURS * Unit THEN "COMING DUE"
             ELSE "OK"
    ELSE "UNKNOWN"

\* scripts/407_build_dashboard_json.py, lines 102-124
classify_date_first(remaining_days, remaining_hours) ==
    IF remaining_days # None
    THEN LET d == remaining_days[1]
         IN  IF d < 0 THEN "OVERDUE"
             ELSE IF d <= CRITICAL_DAYS * Unit THEN "CRITICAL"
             ELSE IF d <= COMING_DUE_DAYS * Unit THEN "COMING_DUE"
             ELSE "OK"
    ELSE IF remaining_hours # None
    THEN LET h == remaining_hours[1]
         IN  IF h < 0 THEN "OVERDUE"
             ELSE IF h <= CRITICAL_HOURS * Unit THEN "CRITICAL"
             ELSE IF h <= COMING_DUE_HOURS * Unit THEN "COMING_DUE"
             ELSE "OK"
    ELSE "UNKNOWN"

\* "float(rd) if pd.notna(rd) else None" (lines 277-278): None for NaN, the
\* number for a number or for text float() reads, ValueError for other text.
opt_float(cell) ==
    IF cell.kind = "nan" THEN [exc |-> "none", value |-> None]
    ELSE IF cell.kind = "num" \/ cell.text = "float"
    THEN [exc |-> "none", value |-> Some(cell.v)]
    ELSE [exc |-> "ValueError", value |-> None]

\* ---- State ------------------------------------------------------------------
VARIABLES
    pc,            \* where the run of build() stands
    dailyExists,   \* DAILY_CSV.exists()
    weeklyExists,  \* WEEKLY_CSV.exists()
    dailyCols,     \* the columns of the daily export
    hfile,         \* the file at HISTORY_JSON
    report,        \* the file at OUTPUT_JSON
    history,       \* build's local: the history dict
    hshape,        \* build's local: where that value is not a history
    snapshots,     \* build's local: the list handed to update_history
    utilization,   \* build's local: calculate_utilization's result
    today,         \* the clock as calculate_utilization read it
    err,           \* the exception that ended the run
    hfile0,        \* history: the file at HISTORY_JSON when the run started
    written,       \* history: the paths this run has opened for writing
    rd, rh,        \* the Remaining Days / Remaining Hours cells of one row
    status,        \* the urgency the row's item was given
    classifier,    \* the function that gave it
    batch,         \* the rows of the DataFrame at hand
    items,         \* one aircraft's "items" list
    dailyCount,    \* history: how many of the snapshots the daily export gave
    insp_df        \* build's local: the inspection rows with a tail, as far
                   \* as the item loop reads what collect_snapshots read:
                   \* whether line 294 applies float() to text it rejects

envVars  == <<dailyExists, weeklyExists, dailyCols>>
itemVars == <<rd, rh, status, classifier, batch, items>>
vars == <<pc, dailyExists, weeklyExists, dailyCols, hfile, report, history, hshape,
          snapshots, utilization, today, err, hfile0, written,
          rd, rh, status, classifier, batch, items, dailyCount, insp_df>>

NoError == [type |-> "none", what |-> ""]
Raised(type, what) == [type |-> type, what |-> what]

RunningPcs == {"check", "read", "weekly", "merge", "save", "saving",
               "util", "assemble", "write", "writing",
               "script_read", "script_write", "script_writing"}
StoppedPcs == {"idle", "done", "aborted", "killed"}

\* The process ends: its memory is gone, the files stay.
Stop(at, e) ==
    /\ pc' = at
    /\ err' = e
    /\ history' = EmptyHistory
    /\ hshape' = Mapping
    /\ snapshots' = <<>>
    /\ dailyCount' = 0
    /\ insp_df' = <<>>
    /\ utilization' = <<>>
    /\ today' = None

InitItem ==
    /\ rd = NaN /\ rh = NaN /\ status = None /\ classifier = "none"
    /\ batch = <<>> /\ items = <<>>
    /\ insp_df = <<>>

Init ==
    /\ pc = "idle"
    /\ dailyExists = FALSE /\ weeklyExists = FALSE /\ dailyCols = AllColumns
    /\ hfile \in {AbsentFile, CorruptFile, OtherFile,
                  ListsFile([t \in {"N1"} |-> ListOf({5})], {"N1"})}
    /\ hfile0 = hfile
    /\ report = "absent"
    /\ history = EmptyHistory
    /\ hshape = Mapping
    /\ snapshots = <<>>
    /\ dailyCount = 0
    /\ utilization = <<>>
    /\ today = None
    /\ err = NoError
    /\ written = {}
    /\ InitItem

\* ---- build() (lines 233-371) ---------------------------------------------
\* The process is started, on whatever exports are in place.
StartRun ==
    /\ pc \in StoppedPcs
    /\ \E de \in BOOLEAN, we \in BOOLEAN, cols \in Schemas :
         /\ (~de => cols = AllColumns)
         /\ dailyExists' = de
         /\ weeklyExists' = we
         /\ dailyCols' = cols
    /\ pc' = "check"
    /\ hfile0' = hfile
    /\ written' = {}
    /\ err' = NoError
    /\ history' = EmptyHistory
    /\ hshape' = Mapping
    /\ snapshots' = <<>>
    /\ dailyCount' = 0
    /\ insp_df' = <<>>
    /\ utilization' = <<>>
    /\ today' = None
    /\ UNCHANGED <<hfile, report, itemVars>>

\* Lines 234-238, naming a path other than the one that is missing.
CheckInput_wrong_path ==
    /\ pc = "check"
    /\ IF ~dailyExists
       THEN Stop("aborted", Raised("FileNotFoundError", WEEKLY_CSV))
       ELSE /\ pc' = "read"
            /\ UNCHANGED <<err, history, hshape, snapshots, dailyCount, insp_df, utilization, today>>
    /\ UNCHANGED <<envVars, hfile, report, hfile0, written, itemVars>>

\* Lines 234-238.
CheckInput ==
    /\ pc = "check"
    /\ IF ~dailyExists
       THEN Stop("aborted", Raised("FileNotFoundError", DAILY_CSV))
       ELSE /\ pc' = "read"
            /\ UNCHANGED <<err, history, hshape, snapshots, dailyCount, insp_df, utilization, today>>
    /\ UNCHANGED <<envVars, hfile, report, hfile0, written, itemVars>>

\* Line 241, for an export whose rows are all tracked inspections.  The
\* item loop passes over a row without a tail (lines 272-273) and reads the
\* airframe hours of the first row of each aircraft (lines 291-294): for
\* each row with a tail, in order, whether that reading raises ValueError.
RECURSIVE inspection_rows(_, _)
inspection_rows(rows, aircraft_dict) ==
    IF rows = <<>> THEN <<>>
    ELSE LET row == Head(rows)
         IN  IF row.tail = ""
             THEN inspection_rows(Tail(rows), aircraft_dict)
             ELSE <<row.tail \notin aircraft_dict /\ opt_float(row.hours).exc # "none">>
                  \o inspection_rows(Tail(rows), aircraft_dict \cup {row.tail})

\* _norm(row.get("Registration Number", "")) on each row (line 271).
with_tails(rows) ==
    [i \in 1..Len(rows) |-> [tail |-> norm(rows[i].tail), hours |-> rows[i].hours]]

\* Lines 240-245: the daily export is read (_read_csv raises ValueError when
\* neither encoding decodes it) and filtered, the history is loaded, the
\* daily snapshots are collected.  Nothing is written.
ReadDaily ==
    /\ pc = "read"
    /\ \/ Stop("aborted", Raised("ValueError", DAILY_CSV))
       \/ \E rows \in SeqsUpTo(ExportRows, MaxDailyRows) :
            LET daily_df == [columns |-> dailyCols, rows |-> rows]
                loaded   == load_history(hfile)
                snaps    == collect_snapshots(daily_df)
            IN  IF "Item Type" \notin daily_df.columns
                THEN Stop("aborted", Raised("KeyError", "Item Type"))
                ELSE IF loaded.exc # "none"
                THEN Stop("aborted", Raised(loaded.exc, HISTORY_JSON))
                ELSE IF snaps.exc # "none"
                THEN Stop("aborted", Raised(snaps.exc, "Airframe Hours"))
                ELSE /\ pc' = "weekly"
                     /\ history' = loaded.value
                     /\ hshape' = loaded.shape
                     /\ snapshots' = snaps.value
                     /\ dailyCount' = Len(snaps.value)
                     /\ insp_df' = inspection_rows(with_tails(rows), {})
                     /\ UNCHANGED <<err, utilization, today>>
    /\ UNCHANGED <<envVars, hfile, report, hfile0, written, itemVars>>

\* The column sets the weekly export may arrive with.
WeeklySchemas == { AllColumns, AllColumns \ {"Airframe Hours"} }

\* Lines 246-248 with the weekly snapshots put ahead of the daily ones.
ReadWeekly_weekly_first ==
    /\ pc = "weekly"
    /\ IF weeklyExists
       THEN \/ Stop("aborted", Raised("ValueError", WEEKLY_CSV))
            \/ \E cols \in WeeklySchemas, rows \in SeqsUpTo(ExportRows, MaxWeeklyRows) :
                 LET weekly_df == [columns |-> cols, rows |-> rows]
                     snaps     == collect_snapshots(weekly_df)
                 IN  IF snaps.exc # "none"
                     THEN Stop("aborted", Raised(snaps.exc, "Airframe Hours"))
                     ELSE /\ snapshots' = snaps.value \o snapshots
                          /\ pc' = "merge"
                          /\ UNCHANGED <<err, history, hshape, dailyCount, insp_df,
                                         utilization, today>>
       ELSE /\ snapshots' = snapshots
            /\ pc' = "merge"
            /\ UNCHANGED <<err, history, hshape, dailyCount, insp_df, utilization, today>>
    /\ UNCHANGED <<envVars, hfile, report, hfile0, written, itemVars>>

\* Lines 246-248: when the weekly export exists it is read (ValueError when
\* it cannot be decoded) and its snapshots (KeyError when a column of the
\* three is missing) are appended to the daily ones.
ReadWeekly ==
    /\ pc = "weekly"
    /\ IF weeklyExists
       THEN \/ Stop("aborted", Raised("ValueError", WEEKLY_CSV))
            \/ \E cols \in WeeklySchemas, rows \in SeqsUpTo(ExportRows, MaxWeeklyRows) :
                 LET weekly_df == [columns |-> cols, rows |-> rows]
                     snaps     == collect_snapshots(weekly_df)
                 IN  IF snaps.exc # "none"
                     THEN Stop("aborted", Raised(snaps.exc, "Airframe Hours"))
                     ELSE /\ snapshots' = snapshots \o snaps.value
                          /\ pc' = "merge"
                          /\ UNCHANGED <<err, history, hshape, dailyCount, insp_df,
                                         utilization, today>>
       ELSE /\ snapshots' = snapshots
            /\ pc' = "merge"
            /\ UNCHANGED <<err, history, hshape, dailyCount, insp_df, utilization, today>>
    /\ UNCHANGED <<envVars, hfile, report, hfile0, written, itemVars>>

\* update_history on a value that is not a history: the first snapshot
\* meets a value without "setdefault" (line 154, AttributeError); a snapshot
\* for a tail whose value is a list passes when its day is an element of
\* the list (line 155) and meets the assignment of line 156 when it is not
\* (TypeError).
update_history_error(shape, h, snaps) ==
    IF snaps = <<>> THEN NoError
    ELSE IF shape.top THEN Raised("AttributeError", HISTORY_JSON)
    ELSE IF \E i \in 1..Len(snaps) :
              /\ snaps[i][1] \in shape.lists
              /\ snaps[i][2] \notin DOMAIN h[snaps[i][1]]
    THEN Raised("TypeError", HISTORY_JSON)
    ELSE NoError

\* Line 249.
UpdateHistory ==
    /\ pc = "merge"
    /\ IF update_history_error(hshape, history, snapshots) # NoError
       THEN Stop("aborted", update_history_error(hshape, history, snapshots))
       ELSE /\ history' = update_history(history, snapshots)
            /\ pc' = "save"
            /\ UNCHANGED <<hshape, snapshots, dailyCount, insp_df, utilization, today, err>>
    /\ UNCHANGED <<envVars, hfile, report, hfile0, written, itemVars>>

\* save_history, lines 125-126: open(HISTORY_JSON, "w") empties the file.
\* build does not read its list of snapshots again.
SaveOpen ==
    /\ pc = "save"
    /\ hfile' = CorruptFile
    /\ written' = written \cup {HISTORY_JSON}
    /\ snapshots' = <<>>
    /\ dailyCount' = 0
    /\ pc' = "saving"
    /\ UNCHANGED <<envVars, report, history, hshape, insp_df, utilization, today, err,
                   hfile0, itemVars>>

\* save_history, line 127 and the end of the with block: the dump is written
\* out and the file closed.
SaveDump ==
    /\ pc = "saving"
    /\ hfile' = dump(history, hshape)
    /\ pc' = "util"
    /\ UNCHANGED <<envVars, report, history, hshape, snapshots, dailyCount, insp_df, utilization, today,
                   err, hfile0, written, itemVars>>

\* Line 252.  On a value that is not a history, history.items() (line 172)
\* or snapshots.keys() (line 173) raises AttributeError.
CalcUtilization ==
    /\ pc = "util"
    /\ IF hshape # Mapping
       THEN Stop("aborted", Raised("AttributeError", HISTORY_JSON))
       ELSE /\ \E t \in Todays :
                 /\ today' = Some(t)
                 /\ utilization' = calculate_utilization(history, t)
            /\ pc' = "assemble"
            /\ UNCHANGED <<history, hshape, snapshots, dailyCount, insp_df, err>>
    /\ UNCHANGED <<envVars, hfile, report, hfile0, written, itemVars>>

\* The Remaining Days / Remaining Hours cells of a tracked row: a number, or
\* text float() rejects.
NumericCells == [rd |-> Num(40 * Unit), rh |-> NaN]
ItemCells ==
    { NumericCells,
      [rd |-> Text("soon", FALSE),  rh |-> NaN],
      [rd |-> NaN,                  rh |-> Text("-", FALSE)] }
\* The remaining days and hours of n tracked rows: numeric in every row, or
\* text in one of them.  The loop stops at the first row it cannot read, so
\* these give every exit of the loop that any choice of cells gives.
ItemCellSeqs(n) ==
    { [i \in 1..n |-> NumericCells] }
    \cup { [i \in 1..n |-> IF i = k THEN c ELSE NumericCells] :
             k \in 1..n, c \in ItemCells \ {NumericCells} }

\* The loop over the tracked rows (lines 266-297), as far as it can raise:
\* float() is applied to the row's remaining days and hours (lines 277-278)
\* and, on the first row of an aircraft, to its airframe hours (line 294).
RECURSIVE item_loop(_, _)
item_loop(df, cells) ==
    IF df = <<>> THEN NoError
    ELSE LET c == Head(cells)
         IN  IF opt_float(c.rd).exc # "none"
             THEN Raised(opt_float(c.rd).exc, "Remaining Days")
             ELSE IF opt_float(c.rh).exc # "none"
             THEN Raised(opt_float(c.rh).exc, "Remaining Hours")
             ELSE IF Head(df)
             THEN Raised("ValueError", "Airframe Hours")
             ELSE item_loop(Tail(df), Tail(cells))

\* row.get(column) on each row: the cell, or None when the export has no
\* such column.
get_cells(cells, columns) ==
    [i \in 1..Len(cells) |->
        [rd |-> cells[i].rd,
         rh |-> IF "Remaining Hours" \in columns THEN cells[i].rh ELSE NaN]]

\* Lines 254-367: the report is assembled in memory.  The item loop reads
\* the remaining days and hours of the tracked rows; the components list
\* selects the "Remaining Hours" and "Requirement Type" columns.  What is
\* written afterwards is the assembled report: of the other locals only
\* their sizes are printed, after the write.
Assemble ==
    /\ pc = "assemble"
    /\ \E cells \in ItemCellSeqs(Len(insp_df)) :
         LET raised == item_loop(insp_df, get_cells(cells, dailyCols))
         IN  IF raised # NoError
             THEN Stop("aborted", raised)
             ELSE IF "Remaining Hours" \notin dailyCols
             THEN Stop("aborted", Raised("KeyError", "Remaining Hours"))
             ELSE IF "Requirement Type" \notin dailyCols
             THEN Stop("aborted", Raised("KeyError", "Requirement Type"))
             ELSE /\ pc' = "write"
                  /\ history' = EmptyHistory
                  /\ hshape' = Mapping
                  /\ insp_df' = <<>>
                  /\ utilization' = <<>>
                  /\ today' = None
                  /\ UNCHANGED <<err, snapshots, dailyCount>>
    /\ UNCHANGED <<envVars, hfile, report, hfile0, written, itemVars>>

\* Lines 369-370: the directory is made and open(OUTPUT_JSON, "w") empties
\* the report.
WriteOpen ==
    /\ pc = "write"
    /\ report' = "partial"
    /\ written' = written \cup {OUTPUT_JSON}
    /\ pc' = "writing"
    /\ UNCHANGED <<envVars, hfile, hfile0, err, history, hshape, snapshots, dailyCount,
                   insp_df, utilization, today, itemVars>>

\* Line 371 and the end of the with block: the report is written out and
\* the file closed; the run ends.
WriteDump ==
    /\ pc = "writing"
    /\ report' = "written"
    /\ Stop("done", err)
    /\ UNCHANGED <<envVars, hfile, hfile0, written, itemVars>>

\* The process is interrupted between two steps.
Interrupt ==
    /\ pc \in RunningPcs
    /\ Stop("killed", err)
    /\ UNCHANGED <<envVars, hfile, report, hfile0, written, itemVars>>

\* ---- scripts/build_407_dashboard.py ------------------------------------------
\* The script writes the same report from the same daily export; it does not
\* look at the weekly export or at the history.
StartScript ==
    /\ pc \in StoppedPcs
    /\ \E de \in BOOLEAN, cols \in Schemas :
         /\ (~de => cols = AllColumns)
         /\ dailyExists' = de
         /\ dailyCols' = cols
    /\ pc' = "script_read"
    /\ hfile0' = hfile
    /\ written' = {}
    /\ err' = NoError
    /\ history' = EmptyHistory
    /\ hshape' = Mapping
    /\ snapshots' = <<>>
    /\ dailyCount' = 0
    /\ insp_df' = <<>>
    /\ utilization' = <<>>
    /\ today' = None
    /\ UNCHANGED <<weeklyExists, hfile, report, itemVars>>

\* The rows the script may find: tail, airframe hours, remaining days and
\* remaining hours of a tracked inspection.
ScriptRows ==
    { [tail |-> Text("N1", FALSE), hours |-> Num(100), rd |-> Num(40 * Unit), rh |-> NaN],
      [tail |-> Text("N1", FALSE), hours |-> Text("abc", FALSE), rd |-> Num(40 * Unit), rh |-> NaN],
      [tail |-> Text("N1", FALSE), hours |-> Num(100), rd |-> Text("soon", FALSE), rh |-> NaN],
      [tail |-> Text("N1", FALSE), hours |-> Num(100), rd |-> NaN, rh |-> Text("-", FALSE)],
      [tail |-> Text("", TRUE),    hours |-> Text("abc", FALSE), rd |-> NaN, rh |-> NaN],
      [tail |-> NaN,               hours |-> Text("abc", FALSE), rd |-> NaN, rh |-> NaN] }

\* str(row.get("Registration Number", "")).strip() (script line 137): NaN
\* becomes the text "nan".
script_tail(cell) == IF cell.kind = "nan" THEN "nan" ELSE cell.text

\* Script lines 123-179: read_csv (FileNotFoundError without the file,
\* UnicodeDecodeError when it is not UTF-8), the "Item Type" filter, the
\* item loop with the same float() calls, the sort.
ScriptRead ==
    /\ pc = "script_read"
    /\ IF ~dailyExists
       THEN Stop("aborted", Raised("FileNotFoundError", DAILY_CSV))
       ELSE \/ Stop("aborted", Raised("UnicodeDecodeError", DAILY_CSV))
            \/ \E rows \in SeqsUpTo(ScriptRows, MaxDailyRows) :
                 LET tracked == SelectSeq(rows, LAMBDA r : script_tail(r.tail) # "")
                     df      == inspection_rows(
                                    [i \in 1..Len(rows) |->
                                        [tail  |-> script_tail(rows[i].tail),
                                         hours |-> rows[i].hours]], {})
                     raised  == item_loop(df, get_cells(tracked, dailyCols))
                 IN  IF "Item Type" \notin dailyCols
                     THEN Stop("aborted", Raised("KeyError", "Item Type"))
                     ELSE IF raised # NoError
                     THEN Stop("aborted", raised)
                     ELSE /\ pc' = "script_write"
                          /\ UNCHANGED <<err, history, hshape, snapshots, dailyCount, insp_df,
                                         utilization, today>>
    /\ UNCHANGED <<envVars, hfile, report, hfile0, written, itemVars>>

\* Script lines 182-183.
ScriptOpen ==
    /\ pc = "script_write"
    /\ report' = "partial"
    /\ written' = written \cup {OUTPUT_JSON}
    /\ pc' = "script_writing"
    /\ UNCHANGED <<envVars, hfile, hfile0, err, history, hshape, snapshots, dailyCount,
                   insp_df, utilization, today, itemVars>>

\* Script line 184 and the end of the with block.
ScriptDump ==
    /\ pc = "script_writing"
    /\ report' = "written"
    /\ Stop("done", err)
    /\ UNCHANGED <<envVars, hfile, hfile0, written, itemVars>>

Next ==
    \/ StartRun
    \/ CheckInput
    \/ ReadDaily
    \/ ReadWeekly
    \/ UpdateHistory
    \/ SaveOpen
    \/ SaveDump
    \/ CalcUtilization
    \/ Assemble
    \/ WriteOpen
    \/ WriteDump
    \/ Interrupt
    \/ StartScript
    \/ ScriptRead
    \/ ScriptOpen
    \/ ScriptDump

Spec == Init /\ [][Next]_vars

\* ---- The estimator on its own ----------------------------------------------
\* One entity's history of up to MaxSnapshots snapshots, as update_history
\* builds it: at least one day, one hours value per day.
UtilHistories ==
    UNION { { [t \in {"N1"} |-> [d \in D |-> [hours |-> f[d]]]] : f \in [D -> UtilHours] } :
            D \in { X \in SUBSET UtilDays : 1 <= Cardinality(X) /\ Cardinality(X) <= MaxSnapshots } }

InitUtil ==
    /\ pc = "util"
    /\ dailyExists = TRUE /\ weeklyExists = FALSE /\ dailyCols = AllColumns
    /\ history \in UtilHistories
    /\ hshape = Mapping
    /\ hfile = CompleteFile(history)
    /\ hfile0 = AbsentFile
    /\ report = "absent"
    /\ snapshots = <<>>
    /\ dailyCount = 0
    /\ utilization = <<>>
    /\ today = None
    /\ err = NoError
    /\ written = {HISTORY_JSON}
    /\ InitItem

NextUtil == CalcUtilization

SpecUtil == InitUtil /\ [][NextUtil]_vars

\* ---- The classifier on its own ---------------------------------------------
\* Remaining Days / Remaining Hours cells, in 1/Unit: every value from one
\* day overdue to one day past the OK boundary, and the hours around each
\* boundary.
RemDayCells ==
    {NaN, Text("soon", FALSE), NumText(CRITICAL_DAYS * Unit)}
    \cup { Num(n) : n \in (0 - Unit)..((COMING_DUE_DAYS + 1) * Unit) }
RemHourCells ==
    {NaN, Text("-", FALSE)} \cup { Num(n) : n \in { -1, 0,
                     CRITICAL_HOURS * Unit - 1, CRITICAL_HOURS * Unit,
                     CRITICAL_HOURS * Unit + 1, COMING_DUE_HOURS * Unit - 1,
                     COMING_DUE_HOURS * Unit, COMING_DUE_HOURS * Unit + 1 } }

InitClassify ==
    /\ pc = "item"
    /\ dailyExists = TRUE /\ weeklyExists = FALSE /\ dailyCols = AllColumns
    /\ hfile = AbsentFile
    /\ hfile0 = AbsentFile
    /\ report = "absent"
    /\ history = EmptyHistory
    /\ hshape = Mapping
    /\ snapshots = <<>>
    /\ dailyCount = 0
    /\ utilization = <<>>
    /\ today = None
    /\ err = NoError
    /\ written = {}
    /\ rd \in RemDayCells
    /\ rh \in RemHourCells
    /\ status = None
    /\ classifier = "none"
    /\ batch = <<>> /\ items = <<>>
    /\ insp_df = <<>>

\* build, lines 275-288: the item of one row gets its status, unless float()
\* rejects one of the two cells.
ClassifyItem ==
    /\ pc = "item"
    /\ LET remaining_days  == opt_float(rd)
           remaining_hours == opt_float(rh)
       IN  IF remaining_days.exc # "none"
           THEN /\ err' = Raised(remaining_days.exc, "Remaining Days")
                /\ pc' = "raised"
                /\ UNCHANGED <<status, classifier>>
           ELSE IF remaining_hours.exc # "none"
           THEN /\ err' = Raised(remaining_hours.exc, "Remaining Hours")
                /\ pc' = "raised"
                /\ UNCHANGED <<status, classifier>>
           ELSE /\ status' = Some(classify(remaining_days.value, remaining_hours.value))
                /\ classifier' = "classify"
                /\ pc' = "classified"
                /\ err' = err
    /\ UNCHANGED <<envVars, hfile, report, history, hshape, snapshots, dailyCount, insp_df, utilization,
                   today, hfile0, written, rd, rh, batch, items>>

\* scripts/407_build_dashboard_json.py build, lines 165-181.
ClassifyItemDateFirst ==
    /\ pc = "item"
    /\ LET remaining_days  == opt_float(rd)
           remaining_hours == opt_float(rh)
       IN  IF remaining_days.exc # "none"
           THEN /\ err' = Raised(remaining_days.exc, "Remaining Days")
                /\ pc' = "raised"
                /\ UNCHANGED <<status, classifier>>
           ELSE IF remaining_hours.exc # "none"
           THEN /\ err' = Raised(remaining_hours.exc, "Remaining Hours")
                /\ pc' = "raised"
                /\ UNCHANGED <<status, classifier>>
           ELSE /\ status' = Some(classify_date_first(remaining_days.value,
                                                      remaining_hours.value))
                /\ classifier' = "classify_date_first"
                /\ pc' = "classified"
                /\ err' = err
    /\ UNCHANGED <<envVars, hfile, report, history, hshape, snapshots, dailyCount, insp_df, utilization,
                   today, hfile0, written, rd, rh, batch, items>>

NextClassify == ClassifyItem \/ ClassifyItemDateFirst

SpecClassify == InitClassify /\ [][NextClassify]_vars

\* ---- The ranker on its own ---------------------------------------------------
\* Remaining Days / Remaining Hours cells of the tracked inspection rows of
\* one aircraft, in 1/Unit.
RankDayCells  == { NaN, Num(0 - Unit), Num(3 * Unit), Num(40 * Unit), Text("soon", FALSE) }
RankHourCells == { NaN, Num(3 * Unit), Num(20 * Unit), Num(60 * Unit) }
RankRows == { [rd |-> d, rh |-> h] : d \in RankDayCells, h \in RankHourCells }

\* The item of a row (lines 275-289); "row" stands for the fields that play
\* no part in the order (inspection, ata, description, due_date).
make_item(r, idx) ==
    [row             |-> idx,
     remaining_days  |-> opt_float(r.rd).value,
     remaining_hours |-> opt_float(r.rh).value,
     status          |-> classify(opt_float(r.rd).value, opt_float(r.rh).value)]

\* The ValueError of lines 277-278 on the row, if float() rejects a cell.
item_error(r) ==
    IF opt_float(r.rd).exc # "none" THEN Raised(opt_float(r.rd).exc, "Remaining Days")
    ELSE IF opt_float(r.rh).exc # "none" THEN Raised(opt_float(r.rh).exc, "Remaining Hours")
    ELSE NoError

\* order.get(status, 9) (lines 103-104)
bucket_of(s) ==
    IF s = "OVERDUE" THEN 0
    ELSE IF s = "CRITICAL" THEN 1
    ELSE IF s = "COMING DUE" THEN 2
    ELSE IF s = "OK" THEN 3
    ELSE IF s = "UNKNOWN" THEN 4
    ELSE 9

\* urgency_key with the hours consulted before the days.
urgency_key_hours_first(item) ==
    LET bucket == bucket_of(item.status)
        d == item.remaining_days
        h == item.remaining_hours
    IN  IF h # None THEN <<bucket, h[1]>>
        ELSE IF d # None THEN <<bucket, d[1]>>
        ELSE <<bucket, 999999 * Unit>>

\* urgency_key (lines 102-109)
urgency_key(item) ==
    LET bucket == bucket_of(item.status)
        d == item.remaining_days
        h == item.remaining_hours
    IN  IF d # None THEN <<bucket, d[1]>>
        ELSE IF h # None THEN <<bucket, h[1]>>
        ELSE <<bucket, 999999 * Unit>>

\* Python's order of two-element tuples.
key_lt(a, b) == a[1] < b[1] \/ (a[1] = b[1] /\ a[2] < b[2])

\* list.sort(key=urgency_key) (line 300) is stable: an item goes behind
\* every item whose key is not greater than its own.
RECURSIVE insert_stable(_, _)
insert_stable(sorted, x) ==
    IF sorted = <<>> THEN <<x>>
    ELSE IF key_lt(urgency_key(x), urgency_key(Head(sorted)))
         THEN <<x>> \o sorted
         ELSE <<Head(sorted)>> \o insert_stable(Tail(sorted), x)

RECURSIVE sort_items(_)
sort_items(list) ==
    IF list = <<>> THEN <<>>
    ELSE insert_stable(sort_items(SubSeq(list, 1, Len(list) - 1)), list[Len(list)])

InitRank ==
    /\ pc = "rank"
    /\ dailyExists = TRUE /\ weeklyExists = FALSE /\ dailyCols = AllColumns
    /\ hfile = AbsentFile
    /\ hfile0 = AbsentFile
    /\ report = "absent"
    /\ history = EmptyHistory
    /\ hshape = Mapping
    /\ snapshots = <<>>
    /\ dailyCount = 0
    /\ utilization = <<>>
    /\ today = None
    /\ err = NoError
    /\ written = {}
    /\ rd = NaN /\ rh = NaN /\ status = None /\ classifier = "none"
    /\ batch \in SeqsUpTo(RankRows, MaxItems)
    /\ items = <<>>
    /\ insp_df = <<>>

\* build, lines 266-300, for the rows of one aircraft: each row's item is
\* appended in row order, then the list is sorted; the first row with a
\* cell float() rejects ends the run before the sort.
RankItems ==
    /\ pc = "rank"
    /\ LET bad == { i \in 1..Len(batch) : item_error(batch[i]) # NoError }
       IN  IF bad # {}
           THEN /\ err' = item_error(batch[CHOOSE i \in bad : \A j \in bad : i <= j])
                /\ pc' = "raised"
                /\ items' = items
           ELSE /\ items' = sort_items([i \in 1..Len(batch) |-> make_item(batch[i], i)])
                /\ pc' = "ranked"
                /\ err' = err
    /\ UNCHANGED <<envVars, hfile, report, history, hshape, snapshots, dailyCount, insp_df,
                   utilization, today, hfile0, written, rd, rh, status,
                   classifier, batch>>

NextRank == RankItems

SpecRank == InitRank /\ [][NextRank]_vars

\* ---- The extractor on a given batch ------------------------------------------
\* The history files a run may find: none, or the dump of an earlier run.
ExtractFiles ==
    { AbsentFile,
      CompleteFile([t \in {"N1"} |-> [d \in {5} |-> [hours |-> 100]]]) }

\* A run whose daily export holds a given batch of rows with every column,
\* and whose weekly export does not exist.
InitExtract ==
    /\ pc = "extract"
    /\ dailyExists = TRUE /\ weeklyExists = FALSE /\ dailyCols = AllColumns
    /\ hfile \in ExtractFiles
    /\ hfile0 = hfile
    /\ report = "absent"
    /\ history = EmptyHistory
    /\ hshape = Mapping
    /\ snapshots = <<>>
    /\ dailyCount = 0
    /\ utilization = <<>>
    /\ today = None
    /\ err = NoError
    /\ written = {}
    /\ rd = NaN /\ rh = NaN /\ status = None /\ classifier = "none"
    /\ batch \in SeqsUpTo(RowSet, MaxBatchRows)
    /\ items = <<>>
    /\ insp_df = inspection_rows(with_tails(batch), {})

\* build, lines 244-248: the history is loaded and the rows of the daily
\* export are extracted; line 246 finds no weekly export.
ExtractBatch ==
    /\ pc = "extract"
    /\ LET loaded == load_history(hfile)
           snaps  == collect_snapshots([columns |-> dailyCols, rows |-> batch])
       IN  IF loaded.exc # "none" \/ snaps.exc # "none"
           THEN /\ err' = Raised(IF loaded.exc # "none" THEN loaded.exc ELSE snaps.exc,
                                 "read")
                /\ pc' = "aborted"
                /\ UNCHANGED <<history, hshape, snapshots, dailyCount, insp_df>>
           ELSE /\ history' = loaded.value
                /\ hshape' = loaded.shape
                /\ snapshots' = snaps.value
                /\ dailyCount' = Len(snaps.value)
                /\ insp_df' = insp_df
                /\ pc' = "merge"
                /\ err' = err
    /\ UNCHANGED <<envVars, hfile, report, utilization, today, hfile0, written,
                   itemVars>>

\* The run on the batch, from the load to the written report.
NextExtract ==
    \/ ExtractBatch
    \/ UpdateHistory
    \/ SaveOpen
    \/ SaveDump
    \/ CalcUtilization
    \/ Assemble
    \/ WriteOpen
    \/ WriteDump

SpecExtract == InitExtract /\ [][NextExtract]_vars

\* ---- Properties ----------------------------------------------------------------
MaxOf(S) == CHOOSE x \in S : \A y \in S : y <= x
MinOf(S) == CHOOSE x \in S : \A y \in S : x <= y

\* Every (entity, day) entry of h is in h2 with the same value.
Preserves(h, h2) ==
    \A t \in DOMAIN h :
        /\ t \in DOMAIN h2
        /\ \A d \in DOMAIN h[t] : d \in DOMAIN h2[t] /\ h2[t][d] = h[t][d]

\* The snapshot is for an (entity, day) that h holds with other hours.
Conflicts(snap, h) ==
    /\ snap[1] \in DOMAIN h
    /\ snap[2] \in DOMAIN h[snap[1]]
    /\ h[snap[1]][snap[2]].hours # snap[3]

\* C1: first-writer-wins.  The merge step of a run keeps every (entity, day)
\* entry of the history it is given, with the hours stored for it, and a save
\* that completes leaves every entry the history file held when the run
\* started in the file, with the same hours.
C1_FirstWriterWins ==
    [][ /\ (pc = "merge" /\ pc' = "save") => Preserves(history, history')
        /\ (pc = "saving" /\ pc' = "util") =>
               /\ hfile'.kind = (IF hfile0.kind = "other" THEN "other" ELSE "complete")
               /\ Preserves(load_history(hfile0).value, hfile'.data) ]_vars

\* A merge has run on a list holding a snapshot for an (entity, day) the
\* loaded history had with other hours, and the loaded hours are still there.
C1_Witness ==
    /\ pc = "save"
    /\ hfile0.kind = "complete"
    /\ hfile0.lists = {}
    /\ \E i \in 1..Len(snapshots) :
         /\ Conflicts(snapshots[i], hfile0.data)
         /\ history[snapshots[i][1]][snapshots[i][2]]
              = hfile0.data[snapshots[i][1]][snapshots[i][2]]

\* C2: merge is idempotent.  Merging a run's list of snapshots twice gives the
\* history that merging it once gives, and merging it again into the merged
\* history changes nothing.
C2_MergeIdempotent ==
    /\ pc = "merge" =>
         update_history(update_history(history, snapshots), snapshots)
           = update_history(history, snapshots)
    /\ pc = "save" => update_history(history, snapshots) = history

\* A merge has run on a list that added an entry and that holds two snapshots
\* for one (entity, day) with different hours.
C2_Witness ==
    /\ pc = "save"
    /\ history # load_history(hfile0).value
    /\ \E i, j \in 1..Len(snapshots) :
         /\ i < j
         /\ snapshots[i][1] = snapshots[j][1]
         /\ snapshots[i][2] = snapshots[j][2]
         /\ snapshots[i][3] # snapshots[j][3]

\* C3: a run that ends with an error has not saved: the history file is as it
\* was when the run started.
C3_FailsBeforePersistence ==
    pc = "aborted" => (hfile = hfile0 /\ HISTORY_JSON \notin written)

\* C4: save replaces the history file atomically.  When the process is
\* interrupted, the file is as it was when the run started or holds the
\* complete dump of a history.
C4_AtomicSave ==
    pc = "killed" => (hfile = hfile0 \/ hfile.kind = "complete")

\* C5: load fails soft.  Whatever the history file holds when the run
\* starts, the run goes on with a history: the file's mapping when the file
\* holds a well-formed history and the empty history otherwise; and no run is
\* ended on account of the history file: an error that ends a run comes from
\* an export, and names the export or the column that gave rise to it.
C5_LoadFailsSoft ==
    /\ pc = "weekly" =>
         /\ hshape = Mapping
         /\ history = (IF hfile0.kind = "complete" /\ hfile0.lists = {}
                       THEN hfile0.data ELSE EmptyHistory)
    /\ pc \in RunningPcs => err = NoError
    /\ pc = "aborted" =>
         /\ err.type \in {"FileNotFoundError", "KeyError", "ValueError",
                          "UnicodeDecodeError"}
         /\ err.what \in {DAILY_CSV, WEEKLY_CSV, "Remaining Days"} \cup AllColumns

\* C6: input-missing is fatal before any mutation.  A run started without the
\* daily export gets no further than the check (the script: than its read of
\* the export), ends with FileNotFoundError naming the daily path, and has
\* opened no file for writing: the history file is as it was.
C6_InputMissingFatal ==
    (pc # "idle" /\ ~dailyExists) =>
        /\ pc \in {"check", "script_read", "aborted", "killed"}
        /\ written = {}
        /\ hfile = hfile0
        /\ pc = "aborted" => err = Raised("FileNotFoundError", DAILY_CSV)

\* A run without the daily export has aborted, with the history and the
\* report of an earlier run in place.
C6_Witness ==
    /\ pc = "aborted"
    /\ ~dailyExists
    /\ hfile.kind = "complete"
    /\ hfile.data # EmptyHistory
    /\ report = "written"

\* C7: best-available-window precedence.  For an entity with two or more
\* snapshots: with a snapshot at or before today-30 the rate is (latest hours
\* - hours of the newest such snapshot) / 30; else with a snapshot at or
\* before today-7 it is (latest hours - hours of the newest such snapshot) /
\* 7; else it is (latest hours - oldest hours) / (newest day - oldest day).
\* The projections are the rate times 7 and times 30.
C7_WindowPrecedence ==
    pc = "assemble" =>
      \A t \in DOMAIN history :
        LET snaps  == history[t]
            days   == DOMAIN snaps
            now    == today[1]
            latest == snaps[MaxOf(days)].hours
            S30    == { d \in days : d <= now - 30 }
            S7     == { d \in days : d <= now - 7 }
            rate   == IF S30 # {}
                      THEN [num |-> latest - snaps[MaxOf(S30)].hours, den |-> 30]
                      ELSE IF S7 # {}
                      THEN [num |-> latest - snaps[MaxOf(S7)].hours, den |-> 7]
                      ELSE [num |-> latest - snaps[MinOf(days)].hours,
                            den |-> MaxOf(days) - MinOf(days)]
        IN  Cardinality(days) >= 2 =>
              /\ utilization[t].avg_daily = Some(rate)
              /\ utilization[t].projection_weekly
                   = Some([num |-> rate.num * 7, den |-> rate.den])
              /\ utilization[t].projection_monthly
                   = Some([num |-> rate.num * 30, den |-> rate.den])

\* Hours 100 on day 1 and 130 on day 31, estimated on day 31: rate 1, weekly
\* projection 7, monthly projection 30.
C7_Witness ==
    /\ pc = "assemble"
    /\ today = Some(31)
    /\ history = [t \in {"N1"} |-> [d \in {1, 31} |->
                     [hours |-> IF d = 1 THEN 100 ELSE 130]]]
    /\ utilization["N1"].avg_daily[1].num = 1 * utilization["N1"].avg_daily[1].den
    /\ utilization["N1"].projection_weekly[1].num
         = 7 * utilization["N1"].projection_weekly[1].den
    /\ utilization["N1"].projection_monthly[1].num
         = 30 * utilization["N1"].projection_monthly[1].den

\* C8: the rate is absent in the degenerate cases.  An entity with fewer than
\* two snapshots has no rate; a span of zero days gives no rate; a rate that
\* is there has a positive divisor; and without a rate there is neither a
\* weekly nor a monthly projection.
C8_DegenerateAbsent ==
    /\ \A delta \in {-30, 0, 30} : span_rate(delta, 0) = None
    /\ pc = "assemble" =>
         \A t \in DOMAIN history :
           LET entry == utilization[t]
           IN  /\ Cardinality(DOMAIN history[t]) < 2 => entry.avg_daily = None
               /\ entry.avg_daily # None => entry.avg_daily[1].den > 0
               /\ entry.avg_daily = None =>
                    /\ Get(entry, "projection_weekly") = None
                    /\ Get(entry, "projection_monthly") = None

\* The estimator has run on an entity with a single snapshot.
C8_Witness ==
    /\ pc = "assemble"
    /\ \E t \in DOMAIN history :
         /\ Cardinality(DOMAIN history[t]) = 1
         /\ utilization[t].avg_daily = None
         /\ Get(utilization[t], "projection_weekly") = None

\* The function that classified the row's item.
Classifier(d, h) ==
    IF classifier = "classify" THEN classify(d, h) ELSE classify_date_first(d, h)

\* C9: days take precedence over hours.  With remaining days present, the
\* status is the one the days alone give, whatever the remaining hours are,
\* and it is OVERDUE when the days are negative.
C9_DaysPrecedence ==
    (pc = "classified" /\ opt_float(rd).value # None) =>
        /\ status = Some(Classifier(opt_float(rd).value, None))
        /\ \A cell \in RemHourCells :
             opt_float(cell).exc = "none" =>
                 Classifier(opt_float(rd).value, opt_float(cell).value) = status[1]
        /\ rd.v < 0 => status = Some("OVERDUE")

\* An item was classified whose days and hours give different urgencies.
C9_Witness ==
    /\ pc = "classified"
    /\ opt_float(rd).value # None /\ opt_float(rh).value # None
    /\ rd.v < 0
    /\ Classifier(None, opt_float(rh).value) = "OK"
    /\ status = Some("OVERDUE")

\* The urgency of a value against an inclusive pair of thresholds.
Bucket(x, critical, coming_due) ==
    IF x < 0 THEN "OVERDUE"
    ELSE IF x <= critical * Unit THEN "CRITICAL"
    ELSE IF x <= coming_due * Unit THEN "COMING_DUE"
    ELSE "OK"

UrgencyName(s) == IF s = "COMING DUE" THEN "COMING_DUE" ELSE s

\* C10: the threshold table.  Days present: below 0 OVERDUE, up to 7
\* CRITICAL, up to 30 COMING_DUE, above OK; days absent and hours present: the
\* same with 25 and 100; both absent: UNKNOWN, and only then.
C10_ThresholdTable ==
    pc = "classified" =>
        LET d == opt_float(rd).value
            h == opt_float(rh).value
            u == UrgencyName(status[1])
        IN  /\ u \in {"OVERDUE", "CRITICAL", "COMING_DUE", "OK", "UNKNOWN"}
            /\ d # None => u = Bucket(d[1], 7, 30)
            /\ (d = None /\ h # None) => u = Bucket(h[1], 25, 100)
            /\ (u = "UNKNOWN") <=> (d = None /\ h = None)

\* Exactly 7 days remaining was classified CRITICAL by classify.
C10_Witness ==
    /\ pc = "classified"
    /\ classifier = "classify"
    /\ rd = Num(7 * Unit)
    /\ status = Some("CRITICAL")

\* The rank the claim gives an item: the ordinal of its urgency, then its
\* remaining days, else its remaining hours, else the sentinel.
UrgencyOrdinal(s) ==
    CHOOSE k \in 1..5 :
        <<"OVERDUE", "CRITICAL", "COMING_DUE", "OK", "UNKNOWN">>[k] = UrgencyName(s)
Secondary(item) ==
    IF item.remaining_days # None THEN item.remaining_days[1]
    ELSE IF item.remaining_hours # None THEN item.remaining_hours[1]
    ELSE 999999 * Unit
NoData(item) == item.remaining_days = None /\ item.remaining_hours = None

\* C11: the ranking order.  The sorted list holds the rows' items, each once;
\* an item of a more urgent bucket comes before every item of a less urgent
\* one; within a bucket the secondary keys do not decrease, so an item with
\* no remaining-time data is followed only by such items; and items with
\* equal keys stand in row order.
C11_RankingOrder ==
    pc = "ranked" =>
        /\ Len(items) = Len(batch)
        /\ { items[i].row : i \in 1..Len(items) } = 1..Len(batch)
        /\ \A i \in 1..Len(items) :
             items[i] = make_item(batch[items[i].row], items[i].row)
        /\ \A i, j \in 1..Len(items) :
             i < j =>
               LET a == items[i]
                   b == items[j]
               IN  /\ UrgencyOrdinal(a.status) <= UrgencyOrdinal(b.status)
                   /\ UrgencyOrdinal(a.status) = UrgencyOrdinal(b.status) =>
                        /\ Secondary(a) <= Secondary(b)
                        /\ NoData(a) => NoData(b)
                        /\ Secondary(a) = Secondary(b) => a.row < b.row

\* Three items were sorted: the order changed, two items of one bucket with
\* equal keys (one by days, one by hours) kept their row order, and an item
\* of that bucket with a greater key follows them.
C11_Witness ==
    /\ pc = "ranked"
    /\ Len(items) = 3
    /\ items[1].row # 1
    /\ items[1].status = "CRITICAL"
    /\ items[3].status = "CRITICAL"
    /\ Secondary(items[1]) = Secondary(items[2])
    /\ items[1].remaining_days # None
    /\ items[2].remaining_days = None
    /\ Secondary(items[2]) < Secondary(items[3])

\* A row that carries an identifier, a date some parser accepts, and a
\* number of hours; the entity and day it speaks of, and its hours.
WellFormed(row) ==
    /\ row.tail.kind = "text" /\ row.tail.text # ""
    /\ row.date.kind = "text" /\ row.date.text \in {"%m/%d/%Y", "%Y-%m-%d", "pandas"}
    /\ row.hours.kind = "num" \/ (row.hours.kind = "text" /\ row.hours.text = "float")
RowKey(row) == <<row.tail.text, row.date.v>>
WellFormedKeys == { RowKey(batch[i]) : i \in { k \in 1..Len(batch) : WellFormed(batch[k]) } }
\* The first row of the batch that gives an observation of key k.
FirstRow(k) ==
    batch[MinOf({ i \in 1..Len(batch) : WellFormed(batch[i]) /\ RowKey(batch[i]) = k })]
InLoaded(k) ==
    /\ hfile0.kind = "complete"
    /\ k[1] \in DOMAIN hfile0.data
    /\ k[2] \in DOMAIN hfile0.data[k[1]]
Extracted == pc \in {"merge", "save"}
Merged    == pc \in {"save", "saving", "util"}

\* C12: the extractor deduplicates by (entity, day).  The extracted list has
\* at most one triple per (entity, day); the hours of a triple are those of
\* the first row of the batch that observes that entity and day; and after
\* the merge the history holds, for each such (entity, day) that the loaded
\* history did not have, that one value.
C12_DedupFirstRow ==
    /\ Extracted =>
         /\ \A i, j \in 1..Len(snapshots) :
              (snapshots[i][1] = snapshots[j][1] /\ snapshots[i][2] = snapshots[j][2])
                  => i = j
         /\ \A i \in 1..Len(snapshots) :
              LET k == <<snapshots[i][1], snapshots[i][2]>>
              IN  /\ k \in WellFormedKeys
                  /\ snapshots[i][3] = FirstRow(k).hours.v
    /\ Merged =>
         \A k \in WellFormedKeys :
             /\ k[1] \in DOMAIN history
             /\ k[2] \in DOMAIN history[k[1]]
             /\ ~InLoaded(k) => history[k[1]][k[2]] = [hours |-> FirstRow(k).hours.v]

\* Two rows of the batch observe one entity and day with different hours,
\* the history had no value for them, and the merge stored the first row's.
C12_Witness ==
    /\ pc = "save"
    /\ \E i, j \in 1..Len(batch) :
         /\ i < j
         /\ WellFormed(batch[i]) /\ WellFormed(batch[j])
         /\ RowKey(batch[i]) = RowKey(batch[j])
         /\ batch[i].hours.v # batch[j].hours.v
         /\ ~InLoaded(RowKey(batch[i]))
         /\ Len(snapshots) = 1
         /\ history[RowKey(batch[i])[1]][RowKey(batch[i])[2]].hours = batch[i].hours.v

\* C13: malformed rows are skipped without aborting.  No run is ended by an
\* error over a row's identifier, date or hours; the (entity, day) pairs
\* extracted are exactly those of the well-formed rows, so a malformed row
\* adds nothing and takes nothing away; and the saved history has every one
\* of them.
C13_MalformedSkipped ==
    /\ err.what \notin {"Registration Number", "Airframe Report Date", "Airframe Hours"}
    /\ Extracted =>
         { <<snapshots[i][1], snapshots[i][2]>> : i \in 1..Len(snapshots) }
             = WellFormedKeys
    /\ pc = "util" =>
         /\ hfile = CompleteFile(history)
         /\ \A k \in WellFormedKeys :
              k[1] \in DOMAIN hfile.data /\ k[2] \in DOMAIN hfile.data[k[1]]

\* C14: the baseline is strictly older than the latest snapshot.  For every
\* entity with two or more snapshots whose hours strictly increase with the
\* day, the estimated daily rate is strictly positive, wherever the
\* snapshots lie relative to today-30 and today-7.
C14_BaselineOlder ==
    pc = "assemble" =>
      \A t \in DOMAIN history :
        LET snaps == history[t]
            days  == DOMAIN snaps
        IN  (/\ Cardinality(days) >= 2
             /\ \A d1, d2 \in days : d1 < d2 => snaps[d1].hours < snaps[d2].hours)
            => /\ utilization[t].avg_daily # None
               /\ utilization[t].avg_daily[1].num > 0
               /\ utilization[t].avg_daily[1].den > 0

\* The snapshots the daily export gave, those the weekly export gave, and
\* whether one of a set of snapshots is for the entity t and day d.
DailySnaps  == { snapshots[i] : i \in 1..dailyCount }
WeeklySnaps == { snapshots[i] : i \in (dailyCount + 1)..Len(snapshots) }
Has(S, t, d) == \E sn \in S : sn[1] = t /\ sn[2] = d

\* C15: source precedence within one run.  When the merge is done, every
\* (entity, day) that the loaded history or an export spoke of is in the
\* history; its hours are those of the loaded history if that had it, else
\* those of the daily export if that had it, and those of the weekly export
\* only when neither had it.
C15_SourcePrecedence ==
    pc = "save" =>
      LET loaded == load_history(hfile0).value
          inLoaded(t, d) == t \in DOMAIN loaded /\ d \in DOMAIN loaded[t]
      IN  /\ dailyCount <= Len(snapshots)
          /\ \A sn \in DailySnaps \cup WeeklySnaps :
               sn[1] \in DOMAIN history /\ sn[2] \in DOMAIN history[sn[1]]
          /\ \A t \in DOMAIN history : \A d \in DOMAIN history[t] :
               IF inLoaded(t, d)
               THEN history[t][d] = loaded[t][d]
               ELSE IF Has(DailySnaps, t, d)
               THEN \A sn \in DailySnaps :
                      (sn[1] = t /\ sn[2] = d) => history[t][d].hours = sn[3]
               ELSE /\ Has(WeeklySnaps, t, d)
                    /\ \A sn \in WeeklySnaps :
                         (sn[1] = t /\ sn[2] = d) => history[t][d].hours = sn[3]

\* Both exports spoke of an (entity, day) the loaded history did not have,
\* with different hours, and the merge stored the daily export's.
C15_Witness ==
    /\ pc = "save"
    /\ \E a \in DailySnaps : \E b \in WeeklySnaps :
         /\ a[1] = b[1] /\ a[2] = b[2] /\ a[3] # b[3]
         /\ ~(/\ a[1] \in DOMAIN load_history(hfile0).value
              /\ a[2] \in DOMAIN load_history(hfile0).value[a[1]])
         /\ history[a[1]][a[2]].hours = a[3]

====
